---- MODULE Spec2Model ----
(***************************************************************************)
(* Model of qiskit_aqua_chemistry/aqua_chemistry.py: the AquaChemistry     *)
(* orchestrator (run, run_drive, run_drive_to_jsonfile,                    *)
(* run_algorithm_from_jsonfile, run_algorithm_from_json, save_input) and   *)
(* the pipeline of _run_driver_from_parser.                                *)
(*                                                                         *)
(* Python values are modelled as follows.                                  *)
(*   None / absent        the empty sequence <<>>   (None)                 *)
(*   a present value v    the one-element sequence <<v>>   (Some(v))       *)
(*   a dict               a function from string keys (a record)           *)
(*   a list               a sequence                                       *)
(*   a path               [abs |-> BOOLEAN, parts |-> sequence of names]   *)
(* Collaborators outside the file (InputParser, the driver and operator    *)
(* registries, the driver, the operator, run_algorithm) are modelled by    *)
(* their contract; they are assumed not to raise errors other than those   *)
(* of the error taxonomy.                                                  *)
(***************************************************************************)
EXTENDS Integers, Sequences, FiniteSets, TLC

VARIABLES
    parser,     \* self._parser: None or Some(parser object)
    core,       \* self._core: None or Some(operator name)
    fsHdf5,     \* the Molecule cache file: None or Some([path, molecule])
    fsJson,     \* the staged JSON file: None or Some(serialized text)
    fsOut,      \* the plain-text output file: None or Some(lines)
    fsSaved,    \* the file written by save_input: None or Some(sections)
    last,       \* the last public call: operation, arguments, events, outcome
    parsedDoc,  \* history: None, or Some(the document most recently parsed, as of
                \* the end of the call that parsed it)
    ncalls      \* number of public calls made so far

vars == <<parser, core, fsHdf5, fsJson, fsOut, fsSaved, last, parsedDoc, ncalls>>

None == <<>>
Some(v) == <<v>>
IsNone(x) == x = <<>>
The(x) == x[1]

(***************************************************************************)
(* Bounds of the model.                                                    *)
(***************************************************************************)
MaxCalls == 3
MaxDeviations == 2

(***************************************************************************)
(* Names and keys.                                                         *)
(***************************************************************************)
NAME == "name"
DRIVER == "driver"
OPERATOR == "operator"
PROBLEM == "problem"
AUTO_SUBSTITUTIONS == "auto_substitutions"
KEY_HDF5_OUTPUT == "hdf5_output"
DRIVER_RUN_TO_HDF5 == 1
DRIVER_RUN_TO_ALGO_INPUT == 2

\* str.lower() on the names the model uses
Lower(s) ==
    CASE s = "PYSCF" -> "pyscf"
      [] s = "Foo" -> "foo"
      [] OTHER -> s

\* ConfigurationManager.module_names: the registered drivers (exact names)
RegisteredDrivers == {"PYSCF"}
\* the registered chemistry operators
RegisteredOperators == {"hamiltonian", "custom_operator"}

(***************************************************************************)
(* Paths: os.path.isabs, join, abspath, realpath, dirname.                 *)
(***************************************************************************)
Cwd == [abs |-> TRUE, parts |-> <<"cwd">>]
IsAbs(p) == p.abs
Join(a, b) == IF b.abs THEN b ELSE [abs |-> a.abs, parts |-> a.parts \o b.parts]
AbsPath(p) == IF p.abs THEN p ELSE Join(Cwd, p)
RealPath(p) == AbsPath(p)
Dirname(p) == [abs |-> p.abs, parts |-> SubSeq(p.parts, 1, Len(p.parts) - 1)]

RelHdf5 == [abs |-> FALSE, parts |-> <<"mol.hdf5">>]
AbsHdf5 == [abs |-> TRUE, parts |-> <<"data", "mol.hdf5">>]
InputFile == [abs |-> TRUE, parts |-> <<"work", "input.txt">>]
\* the path a path string denotes
PathOf(str) == IF str = "/data/mol.hdf5" THEN AbsHdf5 ELSE RelHdf5

(***************************************************************************)
(* Input documents.  A section is [data, properties], each None or Some.   *)
(* An input is [wellFormed, schemaOK, filename, sections]; sections maps   *)
(* the section names, as they are stored, to sections.  The documents     *)
(* enumerated                                                              *)
(* differ from a nominal document in at most MaxDeviations of the choices  *)
(* below; every choice is one the branches of the pipeline distinguish.    *)
(***************************************************************************)
Section(d, pr) == [data |-> d, properties |-> pr]

NameSectChoices == {"data+props", "absent"}
DriverNameChoices == {"PYSCF", "absent", "Foo"}
Hdf5Choices == {"absent", "relative", "absolute"}
DriverSectChoices == {"data+props", "data", "props", "absent"}
OperatorNameChoices == {"hamiltonian", "custom_operator", "absent", "bogus"}
ProblemChoices == {"marker", "plain", "noprops", "unresolved"}
FileChoices == {"file", "memory"}
SchemaChoices == {"ok", "invalid"}
\* a further section stored under the driver name as it is written
TwinChoices == {"absent", "props"}

Choices ==
    [nameSect : NameSectChoices, drvName : DriverNameChoices, hdf5 : Hdf5Choices,
     drvSect : DriverSectChoices, opName : OperatorNameChoices,
     problem : ProblemChoices, file : FileChoices, schema : SchemaChoices,
     twin : TwinChoices]

Nominal ==
    [nameSect |-> "data+props", drvName |-> "PYSCF", hdf5 |-> "absent",
     drvSect |-> "data+props", opName |-> "hamiltonian", problem |-> "marker",
     file |-> "file", schema |-> "ok", twin |-> "absent"]

Deviations(c) == Cardinality({f \in DOMAIN Nominal : c[f] # Nominal[f]})

\* the section the driver named in the document reads (PYSCF when none is named)
OwnSectionName(c) == IF c.drvName = "absent" THEN "pyscf" ELSE Lower(c.drvName)

DriverMeta(c) ==
    Section(None, Some(
        (IF c.drvName = "absent" THEN <<>> ELSE (NAME :> c.drvName))
        @@ (CASE c.hdf5 = "absent" -> <<>>
              [] c.hdf5 = "relative" -> (KEY_HDF5_OUTPUT :> "mol.hdf5")
              [] c.hdf5 = "absolute" -> (KEY_HDF5_OUTPUT :> "/data/mol.hdf5"))))

OperatorMeta(c) ==
    Section(None, Some(
        (IF c.opName = "absent" THEN <<>> ELSE (NAME :> c.opName))
        @@ ("transformation" :> "full")))

OwnSection(c) ==
    Section(IF c.drvSect \in {"data+props", "data"} THEN Some("H .0 .0 .0; H .0 .0 0.735") ELSE None,
            IF c.drvSect \in {"data+props", "props"} THEN Some("basis" :> "sto3g") ELSE None)

ProblemSection(c) ==
    CASE c.problem = "marker" ->
           Section(None, Some((AUTO_SUBSTITUTIONS :> "true") @@ ("energy" :> "${computed_energy}")))
      [] c.problem = "plain" ->
           Section(None, Some("energy" :> "0.0"))
      [] c.problem = "noprops" ->
           Section(Some("raw problem text"), None)
      [] c.problem = "unresolved" ->
           Section(None, Some((AUTO_SUBSTITUTIONS :> "true") @@ ("energy" :> "${unknown}")))

SectionsOf(c) ==
    (DRIVER :> DriverMeta(c))
    @@ (OPERATOR :> OperatorMeta(c))
    @@ (PROBLEM :> ProblemSection(c))
    @@ ("algorithm" :> Section(None, Some(NAME :> "VQE")))
    @@ (IF c.nameSect = "absent" THEN <<>>
        ELSE (NAME :> Section(Some("H2 experiment"), Some("comment" :> "x"))))
    @@ (IF c.drvSect = "absent" THEN <<>> ELSE (OwnSectionName(c) :> OwnSection(c)))
    @@ (IF c.twin = "absent" \/ c.drvName = "absent" THEN <<>>
        ELSE (c.drvName :> Section(None, Some("basis" :> "631g"))))

MkInput(c) ==
    [wellFormed |-> TRUE,
     schemaOK |-> c.schema = "ok",
     filename |-> IF c.file = "file" THEN Some(InputFile) ELSE None,
     sections |-> SectionsOf(c)]

Malformed == [wellFormed |-> FALSE, schemaOK |-> FALSE, filename |-> None, sections |-> <<>>]

DocsWithin(k) == {MkInput(c) : c \in {x \in Choices : Deviations(x) <= k}}
Docs == DocsWithin(MaxDeviations)

(***************************************************************************)
(* InputParser (qiskit_aqua_chemistry.parser), by its contract.            *)
(***************************************************************************)
\* InputParser(input): a parser that has not read its input yet
NewParser(input) ==
    [parsed |-> FALSE, wellFormed |-> input.wellFormed, schemaOK |-> input.schemaOK,
     filename |-> input.filename, source |-> input.sections, sections |-> <<>>]

\* parse(): reads the sections of the input
Parse(p) == [p EXCEPT !.parsed = TRUE, !.sections = p.source]

\* validate_merge_defaults(): the document with its defaults merged (the
\* documents enumerated carry their defaults already, so twice is once)
ValidateMergeDefaults(p) == p

GetFilename(p) == p.filename
GetSections(p) == p.sections
GetSectionNames(p) == DOMAIN p.sections

\* get_section(name): lookup by the lower-case name; absent is None
GetSection(p, name) ==
    IF Lower(name) \in DOMAIN p.sections THEN Some(p.sections[Lower(name)]) ELSE None

\* get_section_property(section, key): absent is None
GetSectionProperty(p, name, key) ==
    LET sec == GetSection(p, name) IN
    IF IsNone(sec) \/ IsNone(The(sec).properties) THEN None
    ELSE IF key \in DOMAIN The(The(sec).properties) THEN Some(The(The(sec).properties)[key])
    ELSE None

\* get_section_properties(section): the properties mapping (empty if none)
GetSectionProperties(p, name) ==
    LET sec == GetSection(p, name) IN
    IF IsNone(sec) \/ IsNone(The(sec).properties) THEN <<>> ELSE The(The(sec).properties)

(***************************************************************************)
(* SubstitutionEngine (InputParser.process_substitutions), by its contract *)
(***************************************************************************)
Placeholders == {"${computed_energy}", "${unknown}"}
PlaceholderKey(v) == IF v = "${computed_energy}" THEN "computed_energy" ELSE "unknown"
MetaSections == {NAME, DRIVER, OPERATOR}

Unresolved(p, info) ==
    \E n \in DOMAIN p.sections \ MetaSections :
        /\ ~IsNone(p.sections[n].properties)
        /\ \E k \in DOMAIN The(p.sections[n].properties) :
              LET v == The(p.sections[n].properties)[k] IN
              v \in Placeholders /\ PlaceholderKey(v) \notin DOMAIN info

SubstProps(props, info) ==
    [k \in DOMAIN props |->
        IF props[k] \in Placeholders /\ PlaceholderKey(props[k]) \in DOMAIN info
        THEN info[PlaceholderKey(props[k])] ELSE props[k]]

ProcessSubstitutions(p, info) ==
    [p EXCEPT !.sections =
        [n \in DOMAIN p.sections |->
            IF IsNone(p.sections[n].properties) \/ n \in MetaSections THEN p.sections[n]
            ELSE [p.sections[n] EXCEPT !.properties = Some(SubstProps(The(@), info))]]]

(***************************************************************************)
(* The opaque collaborators: driver, chemistry operator, algorithm runner. *)
(* Their results are the terms built from what they were given.            *)
(***************************************************************************)
\* driver.run(section), with driver.work_path set
DriverRun(driver_name, section, work_path) ==
    [driver |-> driver_name, config |-> section.data, work_path |-> work_path,
     origin_driver_name |-> None, origin_driver_config |-> None]

\* core.run(molecule): the AlgorithmInput
OperatorRun(op_name, op_props, molecule) ==
    [configuration |-> [name |-> "EnergyInput"],
     params |-> ("qubit_op" :> [operator |-> op_name, properties |-> op_props,
                                driver |-> molecule.driver, config |-> molecule.config,
                                origin |-> molecule.origin_driver_name])]

\* core.molecule_info: the computed properties
MoleculeInfo == ("computed_energy" :> "-1.137")

\* AlgorithmInput.to_params()
ToParams(input_object) == input_object.params

\* core.process_algorithm_result(data): (lines, result)
ProcessAlgorithmResult(op_name, data) ==
    <<  <<[line |-> "energy", by |-> op_name, of |-> data]>>,
        ("energy" :> [by |-> op_name, of |-> data]) @@ ("algorithm_retvals" :> data) >>

(***************************************************************************)
(* _run_driver_from_parser(p, save_json_algo_file), one operator per       *)
(* stage.  A stage works on the context of the call:                       *)
(*   p, core, fsHdf5   the parser, self._core and the cache file           *)
(*   err               None, or Some(error raised)                         *)
(*   done              TRUE once the function has returned                 *)
(*   ret               the tuple returned                                  *)
(*   events            the calls made on collaborators and files, in order *)
(* A stage leaves the context alone once the call has raised or returned.  *)
(***************************************************************************)
Active(s) == IsNone(s.err) /\ ~s.done
Raise(s, e) == [s EXCEPT !.err = Some(e)]
Emit(s, ev) == [s EXCEPT !.events = Append(@, ev)]

Context(p, save_json_algo_file, core0, hdf0, events0) ==
    [p |-> p, save_json |-> save_json_algo_file, core |-> core0, fsHdf5 |-> hdf0,
     err |-> None, done |-> FALSE, ret |-> <<>>, events |-> events0,
     driver_name |-> None, hdf5_file |-> None, section |-> None, work_path |-> None,
     molecule |-> None, input_object |-> None]

\* p.validate_merge_defaults()
StValidate(s) ==
    IF ~Active(s) THEN s
    ELSE IF ~s.p.schemaOK THEN Raise(Emit(s, "validate"), "ValidationError")
    ELSE [Emit(s, "validate") EXCEPT !.p = ValidateMergeDefaults(s.p)]

\* mutant of StDriverName: a missing name falls back to a default driver
StDriverNameDefaulted(s) ==
    IF ~Active(s) THEN s
    ELSE LET driver_name == GetSectionProperty(s.p, DRIVER, NAME) IN
         [s EXCEPT !.driver_name = IF IsNone(driver_name) THEN Some("PYSCF") ELSE driver_name]

\* driver_name = p.get_section_property(DRIVER, NAME); raise if None
StDriverName(s) ==
    IF ~Active(s) THEN s
    ELSE LET driver_name == GetSectionProperty(s.p, DRIVER, NAME) IN
         IF IsNone(driver_name) THEN Raise(s, "MissingPropertyError")
         ELSE [s EXCEPT !.driver_name = driver_name]

\* hdf5_file = p.get_section_property(DRIVER, KEY_HDF5_OUTPUT)
StHdf5Property(s) ==
    IF ~Active(s) THEN s
    ELSE LET v == GetSectionProperty(s.p, DRIVER, KEY_HDF5_OUTPUT) IN
         [s EXCEPT !.hdf5_file = IF IsNone(v) THEN None ELSE Some(PathOf(The(v)))]

\* section = p.get_section(driver_name); raise if it holds no 'data'
\* ('data' not in None is a TypeError)
StSection(s) ==
    IF ~Active(s) THEN s
    ELSE LET section == GetSection(s.p, The(s.driver_name)) IN
         IF IsNone(section) THEN Raise(s, "TypeError")
         ELSE IF IsNone(The(section).data) THEN Raise(s, "MissingSectionDataError")
         ELSE [s EXCEPT !.section = section]

\* mutant of NotRegistered: every name passes for a registered driver
NotRegisteredNever(driver_name) == FALSE

\* driver_name not in self._configuration_mgr.module_names
NotRegistered(driver_name) == driver_name \notin RegisteredDrivers

StRegistry(s) ==
    IF ~Active(s) THEN s
    ELSE IF NotRegistered(The(s.driver_name)) THEN Raise(s, "UnknownComponentError")
    ELSE s

\* work_path = dirname(realpath(input_file)) when the input is a file
WorkPath(input_file) ==
    IF IsNone(input_file) THEN None ELSE Some(Dirname(RealPath(The(input_file))))

StWorkPath(s) ==
    IF ~Active(s) THEN s ELSE [s EXCEPT !.work_path = WorkPath(GetFilename(s.p))]

\* driver = get_driver_instance(driver_name); molecule = driver.run(section)
StRunDriver(s) ==
    IF ~Active(s) THEN s
    ELSE [Emit(Emit(s, "resolve_driver"), "run_driver") EXCEPT
            !.molecule = Some(DriverRun(The(s.driver_name), The(s.section), s.work_path))]

\* mutant of ResolveHdf5: the path is used as it is configured
ResolveHdf5Unjoined(work_path, hdf5_file) == hdf5_file

\* a relative hdf5_file is joined to work_path when there is one
ResolveHdf5(work_path, hdf5_file) ==
    IF ~IsNone(work_path) /\ ~IsNone(hdf5_file) /\ ~IsAbs(The(hdf5_file))
    THEN Some(AbsPath(Join(The(work_path), The(hdf5_file))))
    ELSE hdf5_file

StResolveHdf5(s) ==
    IF ~Active(s) THEN s
    ELSE [s EXCEPT !.hdf5_file = ResolveHdf5(s.work_path, s.hdf5_file)]

\* "HDF5 file saved '{}'".format(hdf5_file)
Hdf5Text(hdf5_file) == [fmt |-> "HDF5 file saved '{}'", arg |-> hdf5_file]

\* mutant of WithOrigin: the provenance fields are left as the driver made them
WithOriginUnset(molecule, driver_name, section) == molecule

\* the Molecule with its provenance fields set
WithOrigin(molecule, driver_name, section) ==
    [molecule EXCEPT !.origin_driver_name = Some(driver_name),
                     !.origin_driver_config = section.data]

\* mutants of EndsAfterSave: the run never ends there; the run always ends there
EndsAfterSaveNever(save_json_algo_file) == FALSE
EndsAfterSaveAlways(save_json_algo_file) == TRUE

\* the run ends after the cache file is saved, unless staging JSON
EndsAfterSave(save_json_algo_file) == ~save_json_algo_file

\* if hdf5_file is not None: set provenance, save, and maybe return
StCache(s) ==
    IF ~Active(s) \/ IsNone(s.hdf5_file) THEN s
    ELSE LET molecule == WithOrigin(The(s.molecule), The(s.driver_name), The(s.section))
             saved == [Emit(s, "save_molecule") EXCEPT
                         !.molecule = Some(molecule),
                         !.fsHdf5 = Some([path |-> The(s.hdf5_file), molecule |-> molecule])]
         IN IF EndsAfterSave(s.save_json)
            THEN [saved EXCEPT !.done = TRUE,
                               !.ret = <<DRIVER_RUN_TO_HDF5, Hdf5Text(The(s.hdf5_file))>>]
            ELSE saved

\* get_chemistry_operator_instance(name): the registry's lookup
OperatorRegistered(name) == ~IsNone(name) /\ The(name) \in RegisteredOperators

\* mutant of StOperator: an operator the instance holds already is kept
StOperatorCached(s) ==
    IF ~Active(s) THEN s
    ELSE LET name == GetSectionProperty(s.p, OPERATOR, NAME)
             asked == Emit(s, "resolve_operator")
         IN IF ~OperatorRegistered(name) THEN Raise(asked, "UnknownComponentError")
            ELSE [Emit(Emit(asked, "init_operator"), "run_operator") EXCEPT
                    !.core = IF IsNone(s.core) THEN Some(The(name)) ELSE s.core,
                    !.input_object =
                        Some(OperatorRun(The(name), GetSectionProperties(s.p, OPERATOR),
                                         The(s.molecule)))]

\* self._core = get_chemistry_operator_instance(
\*     p.get_section_property(OPERATOR, NAME)); init_params; run(molecule)
StOperator(s) ==
    IF ~Active(s) THEN s
    ELSE LET name == GetSectionProperty(s.p, OPERATOR, NAME)
             asked == Emit(s, "resolve_operator")
         IN IF ~OperatorRegistered(name) THEN Raise(asked, "UnknownComponentError")
            ELSE [Emit(Emit(asked, "init_operator"), "run_operator") EXCEPT
                    !.core = Some(The(name)),
                    !.input_object =
                        Some(OperatorRun(The(name), GetSectionProperties(s.p, OPERATOR),
                                         The(s.molecule)))]

\* result = p.process_substitutions(self._core.molecule_info)
StSubstitute(s) ==
    IF ~Active(s) THEN s
    ELSE IF Unresolved(s.p, MoleculeInfo) THEN Raise(Emit(s, "substitute"), "SubstitutionError")
    ELSE [Emit(s, "substitute") EXCEPT !.p = ProcessSubstitutions(s.p, MoleculeInfo)]

\* mutant of Skipped: the driver name is compared as it is written
SkippedCaseSensitive(section_name, section, driver_name) ==
    \/ section_name = NAME
    \/ section_name = DRIVER
    \/ section_name = driver_name
    \/ section_name = OPERATOR
    \/ IsNone(section.properties)

\* mutant of Skipped: the section name is lower-cased for the comparison too
SkippedIgnoringCase(section_name, section, driver_name) ==
    \/ section_name = NAME
    \/ section_name = DRIVER
    \/ Lower(section_name) = Lower(driver_name)
    \/ section_name = OPERATOR
    \/ IsNone(section.properties)

\* the test that makes the loop skip a section
Skipped(section_name, section, driver_name) ==
    \/ section_name = NAME
    \/ section_name = DRIVER
    \/ section_name = Lower(driver_name)
    \/ section_name = OPERATOR
    \/ IsNone(section.properties)

\* params[section_name] = deepcopy(section['properties']), less the marker
\* in the problem section
ParamsOf(section_name, section) ==
    LET props == The(section.properties) IN
    IF PROBLEM = section_name /\ AUTO_SUBSTITUTIONS \in DOMAIN props
    THEN [k \in DOMAIN props \ {AUTO_SUBSTITUTIONS} |-> props[k]]
    ELSE props

AssembleParams(p, driver_name) ==
    LET sections == GetSections(p)
        kept == {n \in DOMAIN sections : ~Skipped(n, sections[n], driver_name)}
    IN [n \in kept |-> ParamsOf(n, sections[n])]

StAssemble(s) ==
    IF ~Active(s) THEN s
    ELSE [Emit(s, "assemble") EXCEPT
            !.done = TRUE,
            !.ret = <<DRIVER_RUN_TO_ALGO_INPUT, AssembleParams(s.p, The(s.driver_name)),
                      The(s.input_object)>>]

\* mutant of RunDriverFromParser: the operator is resolved and run before
\* the Molecule is saved
RunDriverFromParserOperatorFirst(p, save_json_algo_file, core0, hdf0, events0) ==
    StAssemble(StSubstitute(StCache(StOperator(StResolveHdf5(StRunDriver(StWorkPath(
    StRegistry(StSection(StHdf5Property(StDriverName(StValidate(
        Context(p, save_json_algo_file, core0, hdf0, events0)))))))))))))

\* _run_driver_from_parser(p, save_json_algo_file), statement by statement
RunDriverFromParser(p, save_json_algo_file, core0, hdf0, events0) ==
    StAssemble(StSubstitute(StOperator(StCache(StResolveHdf5(StRunDriver(StWorkPath(
    StRegistry(StSection(StHdf5Property(StDriverName(StValidate(
        Context(p, save_json_algo_file, core0, hdf0, events0)))))))))))))

(***************************************************************************)
(* run_algorithm (qiskit_aqua) and the JSON file.                          *)
(***************************************************************************)
\* what run_algorithm may return: a dict, or something else
RunnerOutcomes == {"dict", "list"}

\* run_algorithm(params, algo_input, True), followed by convert_json_to_dict
RunAlgorithm(params, algo_input, outcome) ==
    [type |-> outcome,
     items |-> ("eigvals" :> [params |-> params, algo_input |-> algo_input])]

\* mutant of IsDict: the type of the result is not checked
IsDictUnchecked(data) == TRUE

\* isinstance(data, dict)
IsDict(data) == data.type = "dict"

\* json.dump(data, fp, sort_keys=True, indent=4) and json.load(fp)
JsonDump(data) == [json |-> data, sort_keys |-> TRUE, indent |-> 4]
JsonLoad(text) == text.json

(***************************************************************************)
(* The record of a public call.                                            *)
(***************************************************************************)
Call(op, input, target, events, err, ret, ran, noData) ==
    [op |-> op, input |-> input, target |-> target, events |-> events,
     err |-> err, ret |-> ret, ran |-> ran, noData |-> noData]

NoCall == Call("none", None, None, <<>>, None, None, None, FALSE)

Init ==
    /\ parser = None
    /\ core = None
    /\ fsHdf5 = None
    /\ fsJson = None
    /\ fsOut = None
    /\ fsSaved = None
    /\ last = NoCall
    /\ parsedDoc = None
    /\ ncalls = 0

(***************************************************************************)
(* run(input, output): the outcome of the call, as the values the instance *)
(* and the files hold after it and the record of the call.                 *)
(***************************************************************************)
\* the lines written to the output file when an output path is given
WriteOutput(output, lines, old) == IF IsNone(output) THEN old ELSE Some(lines)

\* lines, result = self._format_result(data); result['printable'] = lines
FormatResult(op_name, data) ==
    LET fmt == ProcessAlgorithmResult(op_name, data.items) IN
    [lines |-> fmt[1], result |-> ("printable" :> fmt[1]) @@ fmt[2]]

RunOutcome(input, output, outcome) ==
    LET same == [parser |-> parser, parsedDoc |-> parsedDoc, core |-> core,
                 fsHdf5 |-> fsHdf5, fsOut |-> fsOut]
    IN
    IF IsNone(input)
    THEN same @@
         [call |-> Call("run", input, output, <<>>, Some("MissingInputError"),
                        None, None, FALSE)]
    ELSE IF ~The(input).wellFormed
    THEN [same EXCEPT !.parser = Some(NewParser(The(input)))] @@
         [call |-> Call("run", input, output, <<"parse">>, Some("ParseError"),
                        None, None, FALSE)]
    ELSE
    LET s == RunDriverFromParser(Parse(NewParser(The(input))), FALSE,
                                 core, fsHdf5, <<"parse">>)
        after == [same EXCEPT !.parser = Some(s.p), !.parsedDoc = Some(s.p.sections),
                              !.core = s.core, !.fsHdf5 = s.fsHdf5]
    IN
    IF ~IsNone(s.err)
    THEN after @@ [call |-> Call("run", input, output, s.events, s.err, None, None, FALSE)]
    ELSE IF s.ret[1] = DRIVER_RUN_TO_HDF5
    THEN after @@ [call |-> Call("run", input, output, s.events, None,
                                 Some("printable" :> <<s.ret[2]>>), None, FALSE)]
    ELSE
    LET data == RunAlgorithm(s.ret[2], Some(s.ret[3]), outcome)
        ev == Append(s.events, "run_algorithm")
    IN
    IF ~IsDict(data)
    THEN after @@ [call |-> Call("run", input, output, ev,
                                 Some("AlgorithmResultTypeError"), None, Some(data), FALSE)]
    ELSE
    LET f == FormatResult(The(s.core), data) IN
    [after EXCEPT !.fsOut = WriteOutput(output, f.lines, fsOut)] @@
    [call |-> Call("run", input, output,
                   IF IsNone(output) THEN Append(ev, "format")
                   ELSE Append(Append(ev, "format"), "write_output"),
                   None, Some(f.result), Some(data), FALSE)]

Run(input, output, outcome) ==
    LET r == RunOutcome(input, output, outcome) IN
    /\ ncalls' = ncalls + 1
    /\ parser' = r.parser
    /\ parsedDoc' = r.parsedDoc
    /\ core' = r.core
    /\ fsHdf5' = r.fsHdf5
    /\ fsOut' = r.fsOut
    /\ last' = r.call
    /\ UNCHANGED <<fsJson, fsSaved>>

(***************************************************************************)
(* save_input(input_file)                                                  *)
(***************************************************************************)
SaveInput ==
    /\ ncalls' = ncalls + 1
    /\ UNCHANGED <<parser, core, fsHdf5, fsJson, fsOut, parsedDoc>>
    /\ IF IsNone(parser)
       THEN /\ last' = Call("save_input", None, None, <<>>, Some("MissingInputError"),
                            None, None, FALSE)
            /\ UNCHANGED fsSaved
       ELSE /\ fsSaved' = Some(The(parser).sections)
            /\ last' = Call("save_input", None, None, <<"save_input">>, None,
                            None, None, FALSE)

(***************************************************************************)
(* _run_drive(input, save_json_algo_file): the outcome of the call, as     *)
(* [err, data, parser, core, fsHdf5, events, parsed]                       *)
(***************************************************************************)
\* mutant of WithInput: the name of the algorithm input is not recorded
WithInputUnnamed(params, input_object) ==
    ("input" :> ToParams(input_object)) @@ params

\* driver_return[1]['input'] = driver_return[2].to_params()
\* driver_return[1]['input']['name'] = driver_return[2].configuration['name']
WithInput(params, input_object) ==
    ("input" :> ((NAME :> input_object.configuration.name) @@ ToParams(input_object)))
    @@ params

\* the two subscript lines; driver_return[2] of a 2-tuple is an IndexError
StageData(driver_return) ==
    IF Len(driver_return) < 3 THEN [err |-> Some("IndexError"), data |-> None]
    ELSE [err |-> None, data |-> Some(WithInput(driver_return[2], driver_return[3]))]

RunDriveOutcome(input, save_json_algo_file) ==
    IF IsNone(input)
    THEN [err |-> Some("MissingInputError"), data |-> None, parser |-> parser,
          core |-> core, fsHdf5 |-> fsHdf5, events |-> <<>>, parsedDoc |-> parsedDoc]
    ELSE IF ~The(input).wellFormed
    THEN [err |-> Some("ParseError"), data |-> None,
          parser |-> Some(NewParser(The(input))),
          core |-> core, fsHdf5 |-> fsHdf5, events |-> <<"parse">>,
          parsedDoc |-> parsedDoc]
    ELSE LET s == RunDriverFromParser(Parse(NewParser(The(input))), save_json_algo_file,
                                      core, fsHdf5, <<"parse">>)
             d == StageData(s.ret)
         IN [err |-> IF ~IsNone(s.err) THEN s.err ELSE d.err,
             data |-> IF ~IsNone(s.err) THEN None ELSE d.data,
             parser |-> Some(s.p), core |-> s.core, fsHdf5 |-> s.fsHdf5,
             events |-> s.events, parsedDoc |-> Some(s.p.sections)]

(***************************************************************************)
(* run_drive(input)                                                        *)
(***************************************************************************)
RunDrive(input) ==
    LET r == RunDriveOutcome(input, FALSE) IN
    /\ ncalls' = ncalls + 1
    /\ parser' = r.parser
    /\ parsedDoc' = r.parsedDoc
    /\ core' = r.core
    /\ fsHdf5' = r.fsHdf5
    /\ last' = Call("run_drive", input, None, r.events, r.err, r.data, None, FALSE)
    /\ UNCHANGED <<fsJson, fsOut, fsSaved>>

(***************************************************************************)
(* run_drive_to_jsonfile(input, jsonfile)                                  *)
(***************************************************************************)
\* mutant of RunDriveToJsonfile: the json file is asked for after the drive
RunDriveToJsonfileLateCheck(input, jsonfile) ==
    LET r == RunDriveOutcome(input, TRUE) IN
    /\ ncalls' = ncalls + 1
    /\ UNCHANGED <<fsOut, fsSaved>>
    /\ parser' = r.parser
    /\ parsedDoc' = r.parsedDoc
    /\ core' = r.core
    /\ fsHdf5' = r.fsHdf5
    /\ IF ~IsNone(r.err)
       THEN /\ last' = Call("run_drive_to_jsonfile", input, jsonfile, r.events,
                            r.err, None, None, FALSE)
            /\ UNCHANGED fsJson
       ELSE IF IsNone(jsonfile)
       THEN /\ last' = Call("run_drive_to_jsonfile", input, jsonfile, r.events,
                            Some("MissingOutputPathError"), None, None, FALSE)
            /\ UNCHANGED fsJson
       ELSE IF IsNone(r.data)
       THEN /\ last' = Call("run_drive_to_jsonfile", input, jsonfile, r.events,
                            None, None, None, TRUE)
            /\ UNCHANGED fsJson
       ELSE /\ fsJson' = Some(JsonDump(The(r.data)))
            /\ last' = Call("run_drive_to_jsonfile", input, jsonfile,
                            Append(r.events, "write_json"), None, None, None, FALSE)

RunDriveToJsonfile(input, jsonfile) ==
    /\ ncalls' = ncalls + 1
    /\ UNCHANGED <<fsOut, fsSaved>>
    /\ IF IsNone(jsonfile)
       THEN /\ last' = Call("run_drive_to_jsonfile", input, jsonfile, <<>>,
                            Some("MissingOutputPathError"), None, None, FALSE)
            /\ UNCHANGED <<parser, parsedDoc, core, fsHdf5, fsJson>>
       ELSE LET r == RunDriveOutcome(input, TRUE) IN
            /\ parser' = r.parser
            /\ parsedDoc' = r.parsedDoc
            /\ core' = r.core
            /\ fsHdf5' = r.fsHdf5
            /\ IF ~IsNone(r.err)
               THEN /\ last' = Call("run_drive_to_jsonfile", input, jsonfile, r.events,
                                    r.err, None, None, FALSE)
                    /\ UNCHANGED fsJson
               ELSE IF IsNone(r.data)
               THEN /\ last' = Call("run_drive_to_jsonfile", input, jsonfile, r.events,
                                    None, None, None, TRUE)
                    /\ UNCHANGED fsJson
               ELSE /\ fsJson' = Some(JsonDump(The(r.data)))
                    /\ last' = Call("run_drive_to_jsonfile", input, jsonfile,
                                    Append(r.events, "write_json"), None, None, None, FALSE)

(***************************************************************************)
(* run_algorithm_from_json(params, output) and                             *)
(* run_algorithm_from_jsonfile(jsonfile, output)                           *)
(***************************************************************************)
\* mutant of FromJson: the call drops the parser and the operator of the instance
FromJsonResetting(op, params, output, outcome, events0) ==
    LET ret == RunAlgorithm(params, None, outcome)
        ev == Append(events0, "run_algorithm")
    IN /\ ncalls' = ncalls + 1
       /\ parser' = None
       /\ core' = None
       /\ UNCHANGED <<parsedDoc, fsHdf5, fsJson, fsOut, fsSaved>>
       /\ IF ~IsDict(ret)
          THEN last' = Call(op, None, output, ev, Some("AlgorithmResultTypeError"),
                            None, Some(ret), FALSE)
          ELSE last' = Call(op, None, output, ev, None, Some(ret.items), Some(ret), FALSE)

\* the body shared by the two: ret = run_algorithm(params, None, True)
FromJson(op, params, output, outcome, events0) ==
    LET ret == RunAlgorithm(params, None, outcome)
        ev == Append(events0, "run_algorithm")
    IN /\ ncalls' = ncalls + 1
       /\ UNCHANGED <<parser, parsedDoc, core, fsHdf5, fsJson, fsOut, fsSaved>>
       /\ IF ~IsDict(ret)
          THEN last' = Call(op, None, output, ev, Some("AlgorithmResultTypeError"),
                            None, Some(ret), FALSE)
          ELSE last' = Call(op, None, output, ev, None, Some(ret.items), Some(ret), FALSE)

RunAlgorithmFromJson(params, output, outcome) ==
    FromJson("run_algorithm_from_json", params, output, outcome, <<>>)

RunAlgorithmFromJsonfile(output, outcome) ==
    IF IsNone(fsJson)
    THEN /\ ncalls' = ncalls + 1
         /\ UNCHANGED <<parser, parsedDoc, core, fsHdf5, fsJson, fsOut, fsSaved>>
         /\ last' = Call("run_algorithm_from_jsonfile", None, output, <<>>,
                         Some("FileNotFoundError"), None, None, FALSE)
    ELSE FromJson("run_algorithm_from_jsonfile", JsonLoad(The(fsJson)), output, outcome,
                  <<"read_json">>)

(***************************************************************************)
(* The calls a client makes.  Spec: sequences of up to MaxCalls calls on   *)
(* one instance, over a few documents.  SpecCall: one call on a fresh      *)
(* instance, over every document of Docs.                                  *)
(***************************************************************************)
SeqChoices ==
    {Nominal,
     [Nominal EXCEPT !.hdf5 = "relative"],
     [Nominal EXCEPT !.opName = "bogus"],
     [Nominal EXCEPT !.opName = "custom_operator"],
     [Nominal EXCEPT !.problem = "plain", !.file = "memory"],
     [Nominal EXCEPT !.hdf5 = "absolute", !.file = "memory"]}
SeqDocs == {MkInput(c) : c \in SeqChoices}

InputsOf(D) == {None} \cup {Some(d) : d \in D \cup {Malformed}}
OutputPaths == {None, Some([abs |-> FALSE, parts |-> <<"out.txt">>])}
JsonPaths == {None, Some([abs |-> FALSE, parts |-> <<"stage.json">>])}
\* parameters a client may hand to run_algorithm_from_json
JsonParams ==
    {("algorithm" :> (NAME :> "VQE")) @@ ("input" :> (NAME :> "EnergyInput"))}

CallsLeft == ncalls < MaxCalls
FirstCall == ncalls = 0

DoRun(D, more) ==
    /\ more
    /\ \E input \in InputsOf(D), output \in OutputPaths, outcome \in RunnerOutcomes :
          Run(input, output, outcome)

DoRunDrive(D, more) ==
    /\ more
    /\ \E input \in InputsOf(D) : RunDrive(input)

DoRunDriveToJsonfile(D, more) ==
    /\ more
    /\ \E input \in InputsOf(D), jsonfile \in JsonPaths : RunDriveToJsonfile(input, jsonfile)

DoRunAlgorithmFromJsonfile(more) ==
    /\ more
    /\ \E output \in OutputPaths, outcome \in RunnerOutcomes :
          RunAlgorithmFromJsonfile(output, outcome)

DoRunAlgorithmFromJson(more) ==
    /\ more
    /\ \E params \in JsonParams, output \in OutputPaths, outcome \in RunnerOutcomes :
          RunAlgorithmFromJson(params, output, outcome)

DoSaveInput(more) ==
    /\ more
    /\ SaveInput

Next ==
    \/ DoRun(SeqDocs, CallsLeft)
    \/ DoRunDrive(SeqDocs, CallsLeft)
    \/ DoRunDriveToJsonfile(SeqDocs, CallsLeft)
    \/ DoRunAlgorithmFromJsonfile(CallsLeft)
    \/ DoRunAlgorithmFromJson(CallsLeft)
    \/ DoSaveInput(CallsLeft)

Spec == Init /\ [][Next]_vars

NextCall ==
    \/ DoRun(Docs, FirstCall)
    \/ DoRunDrive(Docs, FirstCall)
    \/ DoRunDriveToJsonfile(Docs, FirstCall)
    \/ DoRunAlgorithmFromJsonfile(FirstCall)
    \/ DoRunAlgorithmFromJson(FirstCall)
    \/ DoSaveInput(FirstCall)

SpecCall == Init /\ [][NextCall]_vars

(***************************************************************************)
(* Vocabulary of the properties: what the last call did, and what the      *)
(* document it was given says.                                             *)
(***************************************************************************)
Did(ev) == \E i \in 1..Len(last.events) : last.events[i] = ev
Failed(e) == last.err = Some(e)
Succeeded == IsNone(last.err)

\* the last call was given a document that parses
GotDocument == ~IsNone(last.input) /\ The(last.input).wellFormed
\* ... and that passes validation
GotValidDocument == GotDocument /\ The(last.input).schemaOK

DocSections == The(last.input).sections
DocHasProperty(sect, key) ==
    /\ sect \in DOMAIN DocSections
    /\ ~IsNone(DocSections[sect].properties)
    /\ key \in DOMAIN The(DocSections[sect].properties)
DocProperty(sect, key) == The(DocSections[sect].properties)[key]

\* the document's driver section (the section named as the driver, in any
\* letter case) carries a raw payload
DocDriverHasData ==
    \E n \in DOMAIN DocSections :
        /\ n = Lower(DocProperty(DRIVER, NAME))
        /\ ~IsNone(DocSections[n].data)

PipelineOps == {"run", "run_drive", "run_drive_to_jsonfile"}
CollaboratorEvents ==
    {"resolve_driver", "run_driver", "save_molecule", "resolve_operator",
     "init_operator", "run_operator", "substitute", "run_algorithm", "format"}
FileWriteEvents == {"save_molecule", "write_json", "write_output", "save_input"}

(***************************************************************************)
(* C1  Cache short-circuit.  Whenever run is given a document that passes  *)
(* validation, names a registered driver whose section has a raw payload,  *)
(* and configures hdf5_output in the driver section, the call persists the *)
(* Molecule and returns exactly {printable: [one line]} where the line     *)
(* names the path the Molecule was saved under (which ends with the        *)
(* configured path); the operator is not resolved, initialised or run, no  *)
(* substitution is made and the algorithm runner is not invoked.           *)
(***************************************************************************)
C1_Case ==
    /\ last.op = "run"
    /\ GotValidDocument
    /\ DocHasProperty(DRIVER, NAME)
    /\ DocProperty(DRIVER, NAME) \in RegisteredDrivers
    /\ DocDriverHasData
    /\ DocHasProperty(DRIVER, KEY_HDF5_OUTPUT)

EndsWith(path, tail) ==
    /\ Len(tail.parts) <= Len(path.parts)
    /\ SubSeq(path.parts, Len(path.parts) - Len(tail.parts) + 1, Len(path.parts)) = tail.parts

\* C1: a run on such a document saves the Molecule, returns exactly
\* {printable: [the line naming the saved path]} and goes no further
C1_CacheShortCircuit ==
    C1_Case =>
        /\ Succeeded
        /\ Did("save_molecule")
        /\ ~IsNone(fsHdf5)
        /\ EndsWith(The(fsHdf5).path, PathOf(DocProperty(DRIVER, KEY_HDF5_OUTPUT)))
        /\ ~IsNone(last.ret)
        /\ DOMAIN The(last.ret) = {"printable"}
        /\ Len(The(last.ret)["printable"]) = 1
        /\ The(last.ret)["printable"][1] = Hdf5Text(The(fsHdf5).path)
        /\ \A ev \in {"resolve_operator", "init_operator", "run_operator",
                      "substitute", "assemble", "run_algorithm", "format"} : ~Did(ev)

\* a run that ended in the short-circuit with a relative path joined to the
\* directory of the input file
C1_Witness ==
    /\ C1_Case
    /\ Did("save_molecule")
    /\ ~IsNone(last.ret)
    /\ The(fsHdf5).path = [abs |-> TRUE, parts |-> <<"work", "mol.hdf5">>]

(***************************************************************************)
(* C2  Whenever run is given a document that passes validation and whose   *)
(* driver section has no "name" property, the call fails with              *)
(* MissingPropertyError having done nothing but parse and validate: no     *)
(* driver resolved or run, no Molecule saved, no operator, no runner.      *)
(***************************************************************************)
C2_Case ==
    /\ last.op = "run"
    /\ GotValidDocument
    /\ ~DocHasProperty(DRIVER, NAME)

\* C2: a run on a valid document without a driver name fails with
\* MissingPropertyError after parse and validate alone
C2_MissingDriverName ==
    C2_Case =>
        /\ Failed("MissingPropertyError")
        /\ last.events = <<"parse", "validate">>
        /\ IsNone(last.ret)
        /\ IsNone(fsHdf5)

\* such a run, on a document that also configures a persistence path
C2_Witness ==
    /\ C2_Case
    /\ DocHasProperty(DRIVER, KEY_HDF5_OUTPUT)
    /\ Failed("MissingPropertyError")

(***************************************************************************)
(* C3, as claimed: whenever run is given a document naming an unregistered *)
(* driver, whatever its other sections hold, the call fails with           *)
(* UnknownComponentError before any driver invocation or file write.       *)
(***************************************************************************)
C3_Case ==
    /\ last.op = "run"
    /\ GotValidDocument
    /\ DocHasProperty(DRIVER, NAME)
    /\ DocProperty(DRIVER, NAME) \notin RegisteredDrivers

NothingInvokedOrWritten ==
    \A ev \in CollaboratorEvents \cup FileWriteEvents : ~Did(ev)

\* C3 as claimed: an unregistered driver always gives UnknownComponentError,
\* with nothing invoked or written
C3_AsClaimed ==
    C3_Case => Failed("UnknownComponentError") /\ NothingInvokedOrWritten

(***************************************************************************)
(* C3, amended: whenever run is given a document naming an unregistered    *)
(* driver, the call fails before any driver invocation or file write; it   *)
(* fails with UnknownComponentError when that driver's section carries a   *)
(* raw payload, and with the error of the section check otherwise.         *)
(***************************************************************************)
\* C3 amended: an unregistered driver always fails with nothing invoked or
\* written, and the error is UnknownComponentError exactly when the driver's
\* section carries a raw payload
C3_UnregisteredDriver ==
    C3_Case =>
        /\ ~Succeeded
        /\ NothingInvokedOrWritten
        /\ IsNone(last.ret)
        /\ IsNone(fsHdf5)
        /\ DocDriverHasData <=> Failed("UnknownComponentError")

\* a run naming an unregistered driver whose section has a payload and a
\* persistence path configured: nothing is saved
C3_Witness ==
    /\ C3_Case
    /\ DocDriverHasData
    /\ DocHasProperty(DRIVER, KEY_HDF5_OUTPUT)
    /\ Failed("UnknownComponentError")

(***************************************************************************)
(* C5  Exclusion correctness.  Whenever a call reaches ASSEMBLE_PARAMS,    *)
(* the assembled parameters (handed to the runner by run, returned by      *)
(* run_drive) hold no entry for the name section, the driver section, the  *)
(* section of the driver in use, the operator section or a section without *)
(* properties; the entry of "problem" does not hold the auto-substitution  *)
(* marker; and every other section of the document that has properties is  *)
(* there with exactly its properties (less the marker, for "problem").     *)
(***************************************************************************)
\* the parameters assembled by the last call
Assembled ==
    IF last.op = "run" THEN The(last.ran).items["eigvals"].params
    ELSE [n \in DOMAIN The(last.ret) \ {"input"} |-> The(last.ret)[n]]

C5_Case ==
    /\ last.op \in {"run", "run_drive"}
    /\ Did("assemble")
    /\ last.op = "run" => ~IsNone(last.ran)
    /\ last.op = "run_drive" => ~IsNone(last.ret)

\* the document as it stands at ASSEMBLE_PARAMS is the one the instance holds
\* C5: the assembled parameters are the properties of exactly the sections
\* that are not excluded, without the marker in "problem"
C5_ExclusionCorrectness ==
    C5_Case =>
        LET secs == The(parser).sections
            drv == DocProperty(DRIVER, NAME)
            excluded == {n \in DOMAIN secs :
                            \/ n \in {NAME, DRIVER, OPERATOR}
                            \/ n = Lower(drv)
                            \/ IsNone(secs[n].properties)}
        IN /\ DOMAIN Assembled = DOMAIN secs \ excluded
           /\ \A n \in DOMAIN Assembled :
                 /\ n = PROBLEM => AUTO_SUBSTITUTIONS \notin DOMAIN Assembled[n]
                 /\ DOMAIN Assembled[n] =
                       DOMAIN The(secs[n].properties)
                       \ (IF n = PROBLEM THEN {AUTO_SUBSTITUTIONS} ELSE {})
                 /\ \A k \in DOMAIN Assembled[n] : Assembled[n][k] = The(secs[n].properties)[k]

\* a document exercising all of the exclusions: name section, driver's own
\* section with properties, and the marker in "problem"
C5_Witness ==
    /\ C5_Case
    /\ last.op = "run"
    /\ NAME \in DOMAIN The(parser).sections
    /\ ~IsNone(The(parser).sections["pyscf"].properties)
    /\ DocHasProperty(PROBLEM, AUTO_SUBSTITUTIONS)
    /\ DOMAIN Assembled = {PROBLEM, "algorithm"}
    /\ Assembled[PROBLEM]["energy"] = "-1.137"

(***************************************************************************)
(* C6  Whenever run_drive is given a document that passes validation,      *)
(* whose driver resolves and runs, whose operator is registered and whose  *)
(* placeholders resolve, the call raises nothing: when the document        *)
(* configures a persistence path the call reports "nothing to stage" by    *)
(* returning None, and otherwise it returns the assembled parameters plus  *)
(* `input`, holding the algorithm input's parameters and its name.         *)
(***************************************************************************)
C6_Case ==
    /\ last.op = "run_drive"
    /\ GotValidDocument
    /\ Did("run_driver")
    /\ DocHasProperty(OPERATOR, NAME)
    /\ DocProperty(OPERATOR, NAME) \in RegisteredOperators
    /\ ~Failed("SubstitutionError")

\* C6: run_drive on such a document raises nothing; it returns None when a
\* persistence path is configured and the parameters plus `input` otherwise
C6_RunDriveReturns ==
    C6_Case =>
        /\ Succeeded
        /\ IF DocHasProperty(DRIVER, KEY_HDF5_OUTPUT)
           THEN IsNone(last.ret)
           ELSE /\ ~IsNone(last.ret)
                /\ "input" \in DOMAIN The(last.ret)
                /\ The(last.ret)["input"][NAME] = "EnergyInput"
                /\ "qubit_op" \in DOMAIN The(last.ret)["input"]

(***************************************************************************)
(* C8  Whenever a call reaches RESOLVE_OPERATOR (the driver has run and    *)
(* the call did not end at the cache) on a document whose operator section *)
(* has no "name" property, it fails with MissingPropertyError without      *)
(* asking the registry for an operator, and no operator is initialised or  *)
(* run.                                                                    *)
(***************************************************************************)
C8_Case ==
    /\ last.op \in PipelineOps
    /\ GotValidDocument
    /\ Did("run_driver")
    /\ ~(Did("save_molecule") /\ last.op # "run_drive_to_jsonfile")
    /\ ~DocHasProperty(OPERATOR, NAME)

\* C8: reaching RESOLVE_OPERATOR without an operator name fails with
\* MissingPropertyError before the registry is asked
C8_MissingOperatorName ==
    C8_Case =>
        /\ Failed("MissingPropertyError")
        /\ ~Did("resolve_operator")
        /\ ~Did("init_operator")
        /\ ~Did("run_operator")

(***************************************************************************)
(* C9  Whenever the algorithm runner is invoked by run,                    *)
(* run_algorithm_from_json or run_algorithm_from_jsonfile and returns      *)
(* something that is not a dict, the call fails with                       *)
(* AlgorithmResultTypeError: nothing is formatted, no output file is       *)
(* written and nothing is returned.                                        *)
(***************************************************************************)
C9_Case ==
    /\ last.op \in {"run", "run_algorithm_from_json", "run_algorithm_from_jsonfile"}
    /\ ~IsNone(last.ran)
    /\ The(last.ran).type # "dict"

\* C9: a runner result that is not a dict fails the call with
\* AlgorithmResultTypeError, nothing formatted, written or returned
C9_ResultTypeError ==
    C9_Case =>
        /\ Failed("AlgorithmResultTypeError")
        /\ last.events[Len(last.events)] = "run_algorithm"
        /\ ~Did("format")
        /\ ~Did("write_output")
        /\ IsNone(last.ret)

\* a run with an output path whose runner returned a list
C9_Witness ==
    /\ C9_Case
    /\ last.op = "run"
    /\ ~IsNone(last.target)
    /\ Failed("AlgorithmResultTypeError")

(***************************************************************************)
(* C10  In run_drive_to_jsonfile the cache short-circuit never fires.      *)
(* Whenever the call is given a document that passes validation: once the  *)
(* driver has run, the Molecule is saved exactly when a persistence path   *)
(* is configured, and either way the call goes on to RESOLVE_OPERATOR; a   *)
(* call that raises nothing went through operator resolution, init and     *)
(* run, substitution and assembly in that order and wrote the JSON file.   *)
(* The "no data to save" outcome occurs exactly when the call ended at the *)
(* cache, hence never.                                                     *)
(***************************************************************************)
C10_Case ==
    /\ last.op = "run_drive_to_jsonfile"
    /\ ~IsNone(last.target)
    /\ GotValidDocument

EndedAtCache == Did("save_molecule") /\ ~Did("resolve_operator")

\* C10: a staging call never ends at the cache; it saves the Molecule exactly
\* when a path is configured, goes on to the operator stages, and writes the
\* JSON file when nothing fails
C10_StagingNeverShortCircuits ==
    C10_Case =>
        LET cached == DocHasProperty(DRIVER, KEY_HDF5_OUTPUT) IN
        /\ last.noData <=> EndedAtCache
        /\ ~EndedAtCache
        /\ Did("run_driver") => (Did("save_molecule") <=> cached) /\ Did("resolve_operator")
        /\ Succeeded =>
              /\ last.events =
                    <<"parse", "validate", "resolve_driver", "run_driver">>
                    \o (IF cached THEN <<"save_molecule">> ELSE <<>>)
                    \o <<"resolve_operator", "init_operator", "run_operator",
                         "substitute", "assemble", "write_json">>
              /\ ~IsNone(fsJson)
              /\ cached <=> ~IsNone(fsHdf5)

\* a staging call on a document with a persistence path: both files written
C10_Witness ==
    /\ C10_Case
    /\ DocHasProperty(DRIVER, KEY_HDF5_OUTPUT)
    /\ Succeeded
    /\ ~IsNone(fsHdf5)
    /\ ~IsNone(fsJson)
    /\ Did("assemble")

(***************************************************************************)
(* C7  Whenever save_input has been called: it failed with                 *)
(* MissingInputError exactly when no document had been parsed in the       *)
(* instance (a call whose parse step failed parsed none), and otherwise it *)
(* wrote the most recently parsed document.                                *)
(***************************************************************************)
C7_SaveInput ==
    last.op = "save_input" =>
        /\ Failed("MissingInputError") <=> IsNone(parsedDoc)
        /\ Succeeded => fsSaved = parsedDoc

(***************************************************************************)
(* C4  Staging round-trip.  The file staged from a document d, the result  *)
(* run returns on d when the runner returns a dict, and the keys of a      *)
(* result that are not provenance.                                         *)
(***************************************************************************)
StagedFrom(d) ==
    LET o == RunDriveOutcome(Some(d), TRUE) IN
    IsNone(o.err) /\ fsJson = Some(JsonDump(The(o.data)))

DirectRun(d) == RunOutcome(Some(d), None, "dict").call

NonProvenance(m) == [k \in DOMAIN m \ {"name", "input"} |-> m[k]]

C4_Case(d) ==
    /\ last.op = "run_algorithm_from_jsonfile"
    /\ Succeeded
    /\ StagedFrom(d)
    /\ ~IsNone(DirectRun(d).ran)

OutputOps == {"run", "run_algorithm_from_json", "run_algorithm_from_jsonfile"}

C11_Case ==
    /\ last.op \in OutputOps
    /\ ~IsNone(last.ran)
    /\ The(last.ran).type = "dict"

\* C11: with an output path the lines are in the output file when the call
\* returns, and without one no output file is written
C11_OutputWritten ==
    C11_Case =>
        IF IsNone(last.target)
        THEN ~Did("write_output")
        ELSE /\ Succeeded
             /\ Did("write_output")
             /\ ~IsNone(fsOut)
             /\ last.op = "run" => fsOut = Some(The(last.ret)["printable"])

(***************************************************************************)
(* C12  In every call of run or run_drive the stages happen in one order:  *)
(* parse, validate, driver resolution, driver run, Molecule save           *)
(* (optional), operator resolution, operator init, operator run,           *)
(* substitution, assembly, algorithm run, formatting, output write         *)
(* (optional).  Each happens at most once, none starts unless all the      *)
(* stages before it were done, and the driver does not run on a document   *)
(* that failed validation.                                                 *)
(***************************************************************************)
StageOrder ==
    <<"parse", "validate", "resolve_driver", "run_driver", "save_molecule",
      "resolve_operator", "init_operator", "run_operator", "substitute",
      "assemble", "run_algorithm", "format", "write_output">>

OptionalStages == {"save_molecule", "write_output"}

StageEvents == {StageOrder[i] : i \in 1..Len(StageOrder)}
Rank(ev) == CHOOSE i \in 1..Len(StageOrder) : StageOrder[i] = ev

C12_Case == last.op \in {"run", "run_drive"}

\* the events of the call are stages, in increasing order
InStageOrder(events) ==
    /\ \A i \in 1..Len(events) : events[i] \in StageEvents
    /\ \A i \in 1..Len(events) - 1 : Rank(events[i]) < Rank(events[i + 1])

\* every stage that is not optional and comes before a stage of the call
\* is a stage of the call too
NoStageLeftOut(events) ==
    \A i \in 1..Len(events) : \A k \in 1..Rank(events[i]) - 1 :
        StageOrder[k] \notin OptionalStages =>
            \E j \in 1..i - 1 : events[j] = StageOrder[k]

\* C12: the stages of a run or run_drive call happen in the one order, each
\* at most once, none before the earlier ones are done, and the driver
\* never runs on a document that failed validation
C12_StageOrdering ==
    C12_Case =>
        /\ InStageOrder(last.events)
        /\ NoStageLeftOut(last.events)
        /\ (GotDocument /\ ~The(last.input).schemaOK) => ~Did("run_driver")

\* a run that went through every stage but the Molecule save, up to the
\* write of the output file
C12_Witness ==
    /\ last.op = "run"
    /\ last.events = SelectSeq(StageOrder, LAMBDA ev : ev # "save_molecule")

(***************************************************************************)
(* C13  Whenever the Molecule is saved, the path it is saved under (the    *)
(* one the returned line names) is absolute, whether the configured path   *)
(* is absolute or relative and whether the input is a file or not; a       *)
(* relative path is resolved against the directory of the input file.      *)
(***************************************************************************)
C13_Case ==
    /\ last.op \in PipelineOps
    /\ Did("save_molecule")

\* the line a short-circuited run returns names the path of the save
LineNamesSavedPath ==
    (last.op = "run" /\ Succeeded) =>
        The(last.ret)["printable"] = <<Hdf5Text(The(fsHdf5).path)>>

\* C13 as the claim states it: the Molecule is always saved under an
\* absolute path
C13_AsClaimed ==
    C13_Case => IsAbs(The(fsHdf5).path) /\ LineNamesSavedPath

ConfiguredHdf5 == PathOf(DocProperty(DRIVER, KEY_HDF5_OUTPUT))

\* C13: the Molecule is saved under the configured path when that path is
\* absolute, under the path joined to the directory of the input file when
\* the path is relative and the input is a file (absolute in both cases),
\* and under the relative path as configured when the input is not a file
C13_SavedPath ==
    C13_Case =>
        /\ LineNamesSavedPath
        /\ IF IsAbs(ConfiguredHdf5)
           THEN The(fsHdf5).path = ConfiguredHdf5
           ELSE IF ~IsNone(The(last.input).filename)
           THEN /\ IsAbs(The(fsHdf5).path)
                /\ The(fsHdf5).path =
                      Join(Dirname(RealPath(The(The(last.input).filename))), ConfiguredHdf5)
           ELSE The(fsHdf5).path = ConfiguredHdf5

\* a relative path was configured in a document read from a file, and the
\* Molecule was saved
C13_Witness ==
    /\ C13_Case
    /\ ~IsAbs(ConfiguredHdf5)
    /\ ~IsNone(The(last.input).filename)
    /\ IsAbs(The(fsHdf5).path)

(***************************************************************************)
(* C14  Wherever the Molecule is saved, its two provenance fields are set: *)
(* the driver name of the driver meta-section and the raw payload of that  *)
(* driver's section of the document of the call.  No Molecule is saved     *)
(* when the document configures no path, and then the Molecule the         *)
(* operator gets carries no provenance.                                    *)
(***************************************************************************)
C14_Case == last.op \in PipelineOps /\ GotDocument

\* the raw payload of the section named as the driver in the document
DocDriverData ==
    DocSections[Lower(DocProperty(DRIVER, NAME))].data

\* the provenance the operator saw on the Molecule it was run on, in the
\* input object handed to the runner (run) or staged (run_drive_to_jsonfile)
OperatorSawOrigin ==
    IF last.op = "run" /\ ~IsNone(last.ran)
    THEN The(The(last.ran).items["eigvals"].algo_input).params["qubit_op"].origin
    ELSE IF last.op = "run_drive_to_jsonfile" /\ Did("write_json")
    THEN JsonLoad(The(fsJson))["input"]["qubit_op"].origin
    ELSE None

\* C14: a saved Molecule carries the driver name and the raw payload of the
\* driver's section; without a configured path nothing is saved and the
\* Molecule carries no provenance
C14_Provenance ==
    C14_Case =>
        /\ Did("save_molecule") =>
              /\ DocHasProperty(DRIVER, KEY_HDF5_OUTPUT)
              /\ ~IsNone(fsHdf5)
              /\ The(fsHdf5).molecule.origin_driver_name = Some(DocProperty(DRIVER, NAME))
              /\ ~IsNone(DocDriverData)
              /\ The(fsHdf5).molecule.origin_driver_config = DocDriverData
        /\ ~DocHasProperty(DRIVER, KEY_HDF5_OUTPUT) =>
              /\ ~Did("save_molecule")
              /\ IsNone(fsHdf5)
              /\ IsNone(OperatorSawOrigin)
        /\ (last.op = "run_drive_to_jsonfile" /\ Did("save_molecule") /\ Did("write_json")) =>
              OperatorSawOrigin = Some(DocProperty(DRIVER, NAME))

\* a Molecule was saved while staging, and the operator was run on it
C14_Witness ==
    /\ C14_Case
    /\ last.op = "run_drive_to_jsonfile"
    /\ Did("save_molecule")
    /\ Did("write_json")
    /\ The(fsHdf5).molecule.origin_driver_name = Some("PYSCF")

(***************************************************************************)
(* C15  After any sequence of calls, whenever run formats a result, the    *)
(* operator that formats it is the one resolved and run in that same call  *)
(* (the one the document of the call names), and the mapping returned has  *)
(* the key `printable` holding the formatted lines.                        *)
(***************************************************************************)
C15_Case == last.op = "run" /\ Did("format")

\* C15: the result run returns is the one the operator named in the
\* document of this call makes of the runner's data, with the lines it
\* formats under `printable`
C15_FreshOperator ==
    C15_Case =>
        LET name == DocProperty(OPERATOR, NAME)
            f == FormatResult(name, The(last.ran))
        IN /\ Did("resolve_operator") /\ Did("init_operator") /\ Did("run_operator")
           /\ core = Some(name)
           /\ Succeeded
           /\ "printable" \in DOMAIN The(last.ret)
           /\ The(last.ret) = f.result
           /\ The(last.ret)["printable"] = f.lines
           /\ \A i \in 1..Len(f.lines) : The(last.ret)["printable"][i].by = name

\* run formats with custom_operator on an instance that staged a file with
\* hamiltonian before
C15_Witness ==
    /\ C15_Case
    /\ core = Some("custom_operator")
    /\ ~IsNone(fsJson)
    /\ JsonLoad(The(fsJson))["input"]["qubit_op"].operator = "hamiltonian"

(***************************************************************************)
(* C16  The driver's own section is left out of the assembled parameters   *)
(* whatever the letter case: a section with properties whose name equals   *)
(* the driver name ignoring case is not in the assembled parameters,       *)
(* in whatever letter case the document stores the name of the section.    *)
(***************************************************************************)
\* the sections of the document that have properties and are named as the
\* driver, ignoring case
NamedAsDriver ==
    {n \in DOMAIN DocSections :
        /\ Lower(n) = Lower(DocProperty(DRIVER, NAME))
        /\ ~IsNone(DocSections[n].properties)}

StagingOps == {"run_drive", "run_drive_to_jsonfile"}
DirectOps == {"run_algorithm_from_json", "run_algorithm_from_jsonfile"}

EventsOf(call) == {call.events[i] : i \in 1..Len(call.events)}

\* what a call of a staging operation, and of a direct operation, may not do
StagingOnly(call) ==
    /\ EventsOf(call) \cap {"run_algorithm", "format", "write_output"} = {}
    /\ IsNone(call.ran)

DirectOnly(call) ==
    EventsOf(call) \subseteq {"read_json", "run_algorithm"}

\* the step of a call of a direct operation leaves the instance as it was
C17_DirectStep ==
    last'.op \in DirectOps =>
        /\ DirectOnly(last')
        /\ parser' = parser
        /\ parsedDoc' = parsedDoc
        /\ core' = core
        /\ fsHdf5' = fsHdf5

C17_StagingStep ==
    last'.op \in StagingOps =>
        /\ StagingOnly(last')
        /\ fsOut' = fsOut

\* C17: every call of run_drive or run_drive_to_jsonfile goes without the
\* runner and without formatting, and every call of
\* run_algorithm_from_json(file) goes without parsing, driver, operator,
\* substitution and Molecule save, and changes neither the parser nor the
\* operator of the instance
C17_EntryPointSeparation == [][C17_DirectStep /\ C17_StagingStep]_vars

\* run_algorithm_from_jsonfile has returned on an instance that holds a
\* parser, an operator and a saved Molecule from the staging call before
C17_Witness ==
    /\ last.op = "run_algorithm_from_jsonfile"
    /\ Succeeded
    /\ Did("run_algorithm")
    /\ ~IsNone(parser)
    /\ core = Some("hamiltonian")
    /\ ~IsNone(fsHdf5)

(***************************************************************************)
(* C18  Absent arguments fail fast.  run and run_drive without an input    *)
(* fail with MissingInputError, run_drive_to_jsonfile without a json file  *)
(* fails with MissingOutputPathError whatever the input; in each case no   *)
(* document is parsed, no collaborator is invoked, no file is written and  *)
(* the parser and the operator of the instance stay as they were, so that  *)
(* a save_input that follows saves the document parsed before.             *)
(***************************************************************************)
\* the call was made without the argument it needs first
AbsentInput(call) == call.op \in {"run", "run_drive"} /\ IsNone(call.input)
AbsentJsonfile(call) == call.op = "run_drive_to_jsonfile" /\ IsNone(call.target)

C18_AbsentStep ==
    (AbsentInput(last') \/ AbsentJsonfile(last')) =>
        /\ AbsentInput(last') => last'.err = Some("MissingInputError")
        /\ AbsentJsonfile(last') => last'.err = Some("MissingOutputPathError")
        /\ last'.events = <<>>
        /\ IsNone(last'.ret) /\ IsNone(last'.ran)
        /\ UNCHANGED <<parser, parsedDoc, core, fsHdf5, fsJson, fsOut, fsSaved>>

\* save_input right after such a call saves the document of the parser the
\* instance held before it
C18_SaveInputStep ==
    ((AbsentInput(last) \/ AbsentJsonfile(last)) /\ last'.op = "save_input"
        /\ ~IsNone(parser)) =>
        /\ last'.err = None
        /\ fsSaved' = Some(The(parser).sections)

\* C18: a call without its input (run, run_drive) or without its json file
\* (run_drive_to_jsonfile) fails with the error of the missing argument and
\* changes nothing, and a save_input after it saves the earlier document
C18_AbsentArguments == [][C18_AbsentStep /\ C18_SaveInputStep]_vars

\* run_drive_to_jsonfile was called with a well-formed document and no json
\* file, on an instance that holds a parser and an operator from a call before
C18_Witness ==
    /\ AbsentJsonfile(last)
    /\ GotValidDocument
    /\ Failed("MissingOutputPathError")
    /\ ~IsNone(parser)
    /\ ~IsNone(core)

(***************************************************************************)
(* C19  When run ends at the cache short-circuit, the output text file is  *)
(* not written even if an output path was given, the operator the instance *)
(* holds is the one it held before the call, and the only file the call    *)
(* writes is the Molecule cache file.                                      *)
(***************************************************************************)
\* the call is a run that returned after saving the Molecule
ShortCircuited(call) ==
    /\ call.op = "run"
    /\ IsNone(call.err)
    /\ "save_molecule" \in EventsOf(call)
    /\ IsNone(call.ran)

C19_ShortCircuitStep ==
    ShortCircuited(last') =>
        /\ EventsOf(last') \cap FileWriteEvents = {"save_molecule"}
        /\ fsOut' = fsOut
        /\ fsJson' = fsJson
        /\ fsSaved' = fsSaved
        /\ core' = core
        /\ ~IsNone(fsHdf5')

\* C19: a run that ends at the cache short-circuit writes the Molecule
\* cache file and no other file, whether or not an output path was given,
\* and leaves the operator of the instance as it was
C19_ShortCircuitFrame == [][C19_ShortCircuitStep]_vars

\* a run given an output path ended at the short-circuit on an instance
\* whose operator an earlier call set; no output file exists
C19_Witness ==
    /\ ShortCircuited(last)
    /\ ~IsNone(last.target)
    /\ core = Some("custom_operator")
    /\ IsNone(fsOut)
    /\ ~IsNone(fsHdf5)

====
